---- MODULE Spec2Model ----
(***************************************************************************)
(* TodoAI: closed-loop perception / decision / action controller.          *)
(*                                                                         *)
(*   TodoAIAgent  (src/todo_ai/agent.py)          task -> steps            *)
(*   StepHandler  (src/step_handler/step_handler.py)  step -> actions      *)
(*   execute_action, enforce_rate_limit                                    *)
(*                (src/action_executor/action_executor.py)                 *)
(*                                                                         *)
(* Time is counted in whole seconds.  The 0.1 s pauses of handle_type are  *)
(* kept as "sleep" entries of the actuator log and do not move the clock.  *)
(* A JSON object is a function from its keys to its values.  A raw model   *)
(* response is a sequence of tokens: fence markers, braces, commentary     *)
(* and the name of a serialized JSON body.                                 *)
(***************************************************************************)
EXTENDS Integers, Sequences, FiniteSets, TLC

VARIABLES
    \* ---- TodoAIAgent ----
    tpc,                 \* position in TodoAIAgent.execute_task
    max_iterations,      \* self.max_iterations
    iteration,           \* local counter of execute_task
    agent_step_history,  \* TodoAIAgent.step_history
    cur_step,            \* step_description / expected_outcome of the running step
    task_outcome,        \* what execute_task returned or raised
    task_decides,        \* query_gemini calls made by the agent
    task_shots,          \* screenshots taken by the agent
    steps_spawned,       \* StepHandler instances created by the agent
    task_response,       \* cleaned text of the last response the agent got
    \* ---- StepHandler ----
    spc,                 \* position in StepHandler.execute_task
    max_attempts,        \* self.max_attempts
    attempt,             \* local counter of execute_task
    step_history,        \* StepHandler.step_history
    step_outcome,        \* what execute_task returned or raised
    step_decides,        \* query_gemini calls made by this StepHandler
    step_shots,          \* screenshots taken by this StepHandler
    step_dispatches,     \* execute_action calls made by this StepHandler
    step_response,       \* cleaned text of the last response this StepHandler got
    step_prompt,         \* step_history part of the last prompt this StepHandler sent
    \* ---- action executor and its environment ----
    now,                 \* wall clock, seconds
    request_timestamps,  \* module-level queue of action_executor
    calls,               \* actuator / resolver calls of the last execute_action
    exec_outcome,        \* outcome of the last execute_action
    passed,              \* instants at which the last type actions got past the limiter
    text_in,             \* text of the last type command given to the executor
    driver_calls,        \* execute_action calls made directly, without a StepHandler
    driver_cmd,          \* action_data of the last direct execute_action call
    driver_fault,        \* collaborator that failed during the last direct call
    raw_response         \* response text under test when one parser is run on its own

vars == << tpc, max_iterations, iteration, agent_step_history, cur_step,
           task_outcome, task_decides, task_shots, steps_spawned, task_response,
           spc, max_attempts, attempt, step_history, step_outcome,
           step_decides, step_shots, step_dispatches, step_response, step_prompt,
           now, request_timestamps, calls, exec_outcome, passed, text_in,
           driver_calls, driver_cmd, driver_fault, raw_response >>

agentVars == << tpc, max_iterations, iteration, agent_step_history, cur_step,
                task_outcome, task_decides, task_shots, steps_spawned, task_response >>

stepVars == << spc, max_attempts, attempt, step_history, step_outcome,
               step_decides, step_shots, step_dispatches, step_response, step_prompt >>

execVars == << now, request_timestamps, calls, exec_outcome, passed, text_in,
              driver_calls, driver_cmd, driver_fault, raw_response >>

----------------------------------------------------------------------------
(* Bounds of the model *)

MaxIterations == 2     \* largest max_iterations an agent is constructed with
MaxAttempts == 3       \* largest max_attempts a stand-alone StepHandler gets
MaxTextLen == 6        \* longest text typed in the typing specification
MaxClock == 120        \* the rate-limiter specification stops the clock here
MaxTypes == 31         \* type actions issued in the rate-limiter specification

(* Program constants *)

MAX_REQUESTS_PER_MINUTE == 15
RATE_WINDOW == 60
DEFAULT_MAX_ATTEMPTS == 10
DEFAULT_DELAY == 2
DEFAULT_SCROLL_AMOUNT == 5
SPACES_PER_TAB == 4

----------------------------------------------------------------------------
(* JSON objects *)

Has(obj, key) == key \in DOMAIN obj

Get(obj, key, default) == IF key \in DOMAIN obj THEN obj[key] ELSE default

EmptyObj == [k \in {} |-> ""]

Truthy(obj) == DOMAIN obj # {}

----------------------------------------------------------------------------
(* Text handling of handle_type *)

Whitespace == {" ", "\t", "\n"}

HasNewline(text) == \E i \in 1..Len(text) : text[i] = "\n"

FirstNewline(text) ==
    CHOOSE i \in 1..Len(text) :
        text[i] = "\n" /\ \A j \in 1..(i - 1) : text[j] # "\n"

RECURSIVE SplitLines(_)
\* text.split('\n')
SplitLines(text) ==
    IF ~HasNewline(text) THEN << text >>
    ELSE LET i == FirstNewline(text)
         IN  << SubSeq(text, 1, i - 1) >> \o SplitLines(SubSeq(text, i + 1, Len(text)))

RECURSIVE LStrip(_, _)
\* str.lstrip(chars)
LStrip(s, chars) ==
    IF Len(s) > 0 /\ Head(s) \in chars THEN LStrip(Tail(s), chars) ELSE s

RECURSIVE RStrip(_, _)
\* str.rstrip(chars)
RStrip(s, chars) ==
    IF Len(s) > 0 /\ s[Len(s)] \in chars THEN RStrip(SubSeq(s, 1, Len(s) - 1), chars) ELSE s

\* str.strip(); the left-stripped text is bound once
Strip(s) ==
    CHOOSE r \in {RStrip(t, Whitespace) : t \in {LStrip(s, Whitespace)}} : TRUE

RECURSIVE TypedLinesOf(_)
\* [line.strip() for line in pieces if line.strip()]
TypedLinesOf(pieces) ==
    IF pieces = << >> THEN << >>
    ELSE (IF Len(Strip(Head(pieces))) > 0 THEN << Strip(Head(pieces)) >> ELSE << >>)
         \o TypedLinesOf(Tail(pieces))

\* lines = [...] over text.split('\n'); the split is bound once
TypedLines(text) ==
    CHOOSE ls \in {TypedLinesOf(pieces) : pieces \in {SplitLines(text)}} : TRUE

\* len(line) - len(line.lstrip(' '))
LeadingSpaces(line) == Len(line) - Len(LStrip(line, {" "}))

TabCount(line) == LeadingSpaces(line) \div SPACES_PER_TAB

----------------------------------------------------------------------------
(* Actuator and resolver calls, as logged *)

Call(op, x, y, s) == [op |-> op, x |-> x, y |-> y, s |-> s]

Press(key) == Call("press", 0, 0, << key >>)
Pause == Call("sleep", 0, 0, << >>)
Typewrite(s) == Call("typewrite", 0, 0, s)
Locate(target) == Call("locate", 0, 0, << target >>)

\* find_element_coordinates(target), when it finds the element
ResolvedX == 7
ResolvedY == 9

RECURSIVE Tabs(_)
Tabs(n) == IF n <= 0 THEN << >> ELSE << Press("tab"), Pause >> \o Tabs(n - 1)
TypeLineCalls_enterAlways(i, line) ==
    << Press("enter"), Pause >>
    \o Tabs(TabCount(line))
    \o << Typewrite(LStrip(line, {" "})), Pause >>

\* body of the for loop of handle_type for line number i (1-based)
TypeLineCalls(i, line) ==
    (IF i > 1 THEN << Press("enter"), Pause >> ELSE << >>)
    \o Tabs(TabCount(line))
    \o << Typewrite(LStrip(line, {" "})), Pause >>

RECURSIVE TypeCallsFrom(_, _)
TypeCallsFrom(lines, i) ==
    IF i > Len(lines) THEN << >>
    ELSE TypeLineCalls(i, lines[i]) \o TypeCallsFrom(lines, i + 1)

\* the for loop over lines; lines is bound once
TypeCalls(text) ==
    CHOOSE cs \in {TypeCallsFrom(lines, 1) : lines \in {TypedLines(text)}} : TRUE

----------------------------------------------------------------------------
(* enforce_rate_limit: the window after the call, the clock when it        *)
(* returns and the time it slept                                           *)

\* variant: the wait is counted from twice the window
WaitTime_twice(time_diff) ==
    IF time_diff < RATE_WINDOW THEN 2 * RATE_WINDOW - time_diff ELSE 0

\* if time_diff < 60: wait_time = 60 - time_diff, and time.sleep(wait_time)
WaitTime(time_diff) ==
    IF time_diff < RATE_WINDOW THEN RATE_WINDOW - time_diff ELSE 0

\* variant: the oldest timestamp is not taken out of the queue
GetThenPut_noGet(ts, clock) == Append(ts, clock)

\* request_timestamps.get() of the oldest entry, later put(current_time)
GetThenPut(ts, clock) == Append(Tail(ts), clock)

\* variant: the caller is never put to sleep
enforce_rate_limit_nosleep(ts, clock) ==
    IF Len(ts) < MAX_REQUESTS_PER_MINUTE
    THEN [window |-> Append(ts, clock), clock |-> clock, waited |-> 0]
    ELSE [window |-> GetThenPut(ts, clock), clock |-> clock, waited |-> 0]

enforce_rate_limit(ts, clock) ==
    IF Len(ts) < MAX_REQUESTS_PER_MINUTE
    THEN [window |-> Append(ts, clock), clock |-> clock, waited |-> 0]
    ELSE LET oldest_timestamp == Head(ts)
             time_diff == clock - oldest_timestamp
             wait_time == WaitTime(time_diff)
         IN  [window |-> GetThenPut(ts, clock),
              clock  |-> clock + wait_time,
              waited |-> wait_time]

----------------------------------------------------------------------------
(* execute_action and its handlers.  fault says which collaborator fails   *)
(* during the call: "none", "resolver" or "actuator".  The result carries  *)
(* the exception raised ("none" on success), the calls issued, the window  *)
(* and the clock after the call, and whether the limiter was entered.      *)

Faults == {"none", "resolver", "actuator"}

Res(exc, msg, about, cs, ts, clock, limited, waited) ==
    [exc |-> exc, msg |-> msg, about |-> about, calls |-> cs,
     window |-> ts, clock |-> clock, limited |-> limited, waited |-> waited]

Pointer_targetFirst(op, parameters, fault, ts, clock) ==
    IF Has(parameters, "target") /\ parameters["target"] # ""
    THEN LET target == parameters["target"]
         IN  IF fault = "resolver"
             THEN Res("RuntimeError", "Error during action on target", target,
                      << Locate(target) >>, ts, clock, FALSE, 0)
             ELSE IF fault = "actuator"
             THEN Res("RuntimeError", "Error during action on target", target,
                      << Locate(target), Call(op, ResolvedX, ResolvedY, << >>) >>,
                      ts, clock, FALSE, 0)
             ELSE Res("none", "", "",
                      << Locate(target), Call(op, ResolvedX, ResolvedY, << >>) >>,
                      ts, clock, FALSE, 0)
    ELSE IF Has(parameters, "x") /\ Has(parameters, "y")
    THEN IF fault = "actuator"
         THEN Res("RuntimeError", "Error during action", "",
                  << Call(op, parameters["x"], parameters["y"], << >>) >>, ts, clock, FALSE, 0)
         ELSE Res("none", "", "",
                  << Call(op, parameters["x"], parameters["y"], << >>) >>, ts, clock, FALSE, 0)
    ELSE Res("ValueError", "Missing target description or x,y coordinates", "",
             << >>, ts, clock, FALSE, 0)

Pointer(op, parameters, fault, ts, clock) ==
    IF Has(parameters, "x") /\ Has(parameters, "y")
    THEN IF fault = "actuator"
         THEN Res("RuntimeError", "Error during action", "",
                  << Call(op, parameters["x"], parameters["y"], << >>) >>, ts, clock, FALSE, 0)
         ELSE Res("none", "", "",
                  << Call(op, parameters["x"], parameters["y"], << >>) >>, ts, clock, FALSE, 0)
    ELSE IF Has(parameters, "target") /\ parameters["target"] # ""
    THEN LET target == parameters["target"]
         IN  IF fault = "resolver"
             THEN Res("RuntimeError", "Error during action on target", target,
                      << Locate(target) >>, ts, clock, FALSE, 0)
             ELSE IF fault = "actuator"
             THEN Res("RuntimeError", "Error during action on target", target,
                      << Locate(target), Call(op, ResolvedX, ResolvedY, << >>) >>,
                      ts, clock, FALSE, 0)
             ELSE Res("none", "", "",
                      << Locate(target), Call(op, ResolvedX, ResolvedY, << >>) >>,
                      ts, clock, FALSE, 0)
    ELSE Res("ValueError", "Missing target description or x,y coordinates", "",
             << >>, ts, clock, FALSE, 0)

handle_click_limited(parameters, fault, ts, clock) ==
    LET rl == enforce_rate_limit(ts, clock)
        r == Pointer("click", parameters, fault, rl.window, rl.clock)
    IN  Res(r.exc, r.msg, r.about, r.calls, rl.window, rl.clock, TRUE, rl.waited)

handle_click(parameters, fault, ts, clock) ==
    Pointer("click", parameters, fault, ts, clock)

handle_doubleclick(parameters, fault, ts, clock) ==
    Pointer("doubleClick", parameters, fault, ts, clock)

handle_type(parameters, fault, ts, clock) ==
    LET rl == enforce_rate_limit(ts, clock)
    IN  IF ~Has(parameters, "text")
        THEN Res("ValueError", "Missing text for type action", "",
                 << >>, rl.window, rl.clock, TRUE, rl.waited)
        ELSE LET all == TypeCalls(parameters["text"])
             IN  IF fault = "actuator" /\ all # << >>
                 THEN Res("RuntimeError", "Error during type action", "",
                          << Head(all) >>, rl.window, rl.clock, TRUE, rl.waited)
                 ELSE Res("none", "", "", all, rl.window, rl.clock, TRUE, rl.waited)

ScrollCall_swapped(direction, amount) ==
    IF direction = "up" THEN Call("scroll", -amount, 0, << >>)
    ELSE IF direction = "down" THEN Call("scroll", amount, 0, << >>)
    ELSE IF direction = "left" THEN Call("hscroll", -amount, 0, << >>)
    ELSE Call("hscroll", amount, 0, << >>)

\* the pyautogui call of handle_scroll for a valid direction
ScrollCall(direction, amount) ==
    IF direction = "up" THEN Call("scroll", amount, 0, << >>)
    ELSE IF direction = "down" THEN Call("scroll", -amount, 0, << >>)
    ELSE IF direction = "left" THEN Call("hscroll", -amount, 0, << >>)
    ELSE Call("hscroll", amount, 0, << >>)

handle_scroll_lenient(parameters, fault, ts, clock) ==
    LET amount == Get(parameters, "amount", DEFAULT_SCROLL_AMOUNT)
    IN  IF ~Has(parameters, "direction")
        THEN Res("ValueError", "Missing direction for scroll action", "",
                 << >>, ts, clock, FALSE, 0)
        ELSE LET c == ScrollCall(parameters["direction"], amount)
             IN  IF fault = "actuator"
                 THEN Res("RuntimeError", "Error during scroll action", "",
                          << c >>, ts, clock, FALSE, 0)
                 ELSE Res("none", "", "", << c >>, ts, clock, FALSE, 0)

handle_scroll(parameters, fault, ts, clock) ==
    LET amount == Get(parameters, "amount", DEFAULT_SCROLL_AMOUNT)
    IN  IF ~Has(parameters, "direction")
        THEN Res("ValueError", "Missing direction for scroll action", "",
                 << >>, ts, clock, FALSE, 0)
        ELSE IF parameters["direction"] \notin {"up", "down", "left", "right"}
        THEN Res("ValueError", "Invalid scroll direction", "", << >>, ts, clock, FALSE, 0)
        ELSE LET c == ScrollCall(parameters["direction"], amount)
             IN  IF fault = "actuator"
                 THEN Res("RuntimeError", "Error during scroll action", "",
                          << c >>, ts, clock, FALSE, 0)
                 ELSE Res("none", "", "", << c >>, ts, clock, FALSE, 0)

HotkeyCalls_sequential(keys) == [i \in 1..Len(keys) |-> Call("hotkey", 0, 0, << keys[i] >>)]

\* pyautogui.hotkey(*keys)
HotkeyCalls(keys) == << Call("hotkey", 0, 0, keys) >>

\* isinstance(keys, list): a keys value that is a JSON string is written as
\* the one-element sequence of that string with keys_type "str" beside it
KeysIsList(parameters) == Get(parameters, "keys_type", "list") = "list"

handle_hotkey_unwrapped(parameters, fault, ts, clock) ==
    IF ~Has(parameters, "keys") \/ Get(parameters, "keys", << >>) = << >>
       \/ ~KeysIsList(parameters)
    THEN Res("ValueError", "Missing or invalid keys for hotkey action", "",
             << >>, ts, clock, FALSE, 0)
    ELSE IF fault = "actuator"
    THEN Res("FailSafeException", "PyAutoGUI fail-safe triggered", "",
             HotkeyCalls(parameters["keys"]), ts, clock, FALSE, 0)
    ELSE Res("none", "", "",
             HotkeyCalls(parameters["keys"]), ts, clock, FALSE, 0)

handle_hotkey(parameters, fault, ts, clock) ==
    IF ~Has(parameters, "keys") \/ Get(parameters, "keys", << >>) = << >>
       \/ ~KeysIsList(parameters)
    THEN Res("ValueError", "Missing or invalid keys for hotkey action", "",
             << >>, ts, clock, FALSE, 0)
    ELSE IF fault = "actuator"
    THEN Res("RuntimeError", "Error during hotkey action", "",
             HotkeyCalls(parameters["keys"]), ts, clock, FALSE, 0)
    ELSE Res("none", "", "",
             HotkeyCalls(parameters["keys"]), ts, clock, FALSE, 0)

execute_action_anyParameters(action_data, fault, ts, clock) ==
    LET action_type == Get(action_data, "action_type", "")
        parameters == Get(action_data, "parameters", EmptyObj)
    IN  IF action_type = ""
        THEN Res("ValueError", "Missing 'action_type' in action data", "",
                 << >>, ts, clock, FALSE, 0)
        ELSE IF action_type = "click" THEN handle_click(parameters, fault, ts, clock)
        ELSE IF action_type = "doubleclick" THEN handle_doubleclick(parameters, fault, ts, clock)
        ELSE IF action_type = "type" THEN handle_type(parameters, fault, ts, clock)
        ELSE IF action_type = "scroll" THEN handle_scroll(parameters, fault, ts, clock)
        ELSE IF action_type = "hotkey" THEN handle_hotkey(parameters, fault, ts, clock)
        ELSE Res("ValueError", "Unknown action type", "", << >>, ts, clock, FALSE, 0)

execute_action(action_data, fault, ts, clock) ==
    LET action_type == Get(action_data, "action_type", "")
        parameters == Get(action_data, "parameters", EmptyObj)
    IN  IF action_type = ""
        THEN Res("ValueError", "Missing 'action_type' in action data", "",
                 << >>, ts, clock, FALSE, 0)
        ELSE IF ~Truthy(parameters)
        THEN Res("ValueError", "Missing 'parameters' in action data", "",
                 << >>, ts, clock, FALSE, 0)
        ELSE IF action_type = "click" THEN handle_click(parameters, fault, ts, clock)
        ELSE IF action_type = "doubleclick" THEN handle_doubleclick(parameters, fault, ts, clock)
        ELSE IF action_type = "type" THEN handle_type(parameters, fault, ts, clock)
        ELSE IF action_type = "scroll" THEN handle_scroll(parameters, fault, ts, clock)
        ELSE IF action_type = "hotkey" THEN handle_hotkey(parameters, fault, ts, clock)
        ELSE Res("ValueError", "Unknown action type", "", << >>, ts, clock, FALSE, 0)

----------------------------------------------------------------------------
(* Model responses.  Body(name) is the JSON object that the body token     *)
(* name serializes.                                                        *)

Fences == {"fence", "fence_json"}

StepVerdictBodies == {"s_success", "s_success_bare", "s_problem", "s_success_act"}

StepActionBodies ==
    {"s_retry_act", "a_click_xy", "a_click_target", "a_dclick_target",
     "a_type", "a_scroll", "a_hotkey"}

StepBadActionBodies ==
    {"a_wait", "a_untagged", "a_noparams", "a_type_notext", "a_scroll_bad", "empty"}

TaskBodies ==
    {"t_success", "t_success_bare", "t_failure", "t_next", "t_other", "t_untagged"}

BodyNames == StepVerdictBodies \cup StepActionBodies \cup StepBadActionBodies \cup TaskBodies

Body(name) ==
    CASE name = "s_success"      -> [result |-> "success", description |-> "outcome visible"]
      [] name = "s_success_bare" -> [result |-> "success"]
      [] name = "s_problem"      -> [result |-> "problem", description |-> "dialog in the way"]
      [] name = "s_success_act"  -> [result |-> "success", action_type |-> "click",
                                     parameters |-> [x |-> 1, y |-> 2]]
      [] name = "s_retry_act"    -> [result |-> "retry", action_type |-> "scroll",
                                     parameters |-> [direction |-> "down", amount |-> 3]]
      [] name = "a_click_xy"     -> [action_type |-> "click", parameters |-> [x |-> 1, y |-> 2]]
      [] name = "a_click_target" -> [action_type |-> "click",
                                     parameters |-> [target |-> "OK button"]]
      [] name = "a_dclick_target" -> [action_type |-> "doubleclick",
                                      parameters |-> [target |-> "App icon"]]
      [] name = "a_type"         -> [action_type |-> "type",
                                     parameters |-> [text |-> << "a", "\n", " ", "b" >>]]
      [] name = "a_scroll"       -> [action_type |-> "scroll", parameters |-> [direction |-> "up"]]
      [] name = "a_hotkey"       -> [action_type |-> "hotkey",
                                     parameters |-> [keys |-> << "ctrl", "c" >>]]
      [] name = "a_wait"         -> [action_type |-> "wait", parameters |-> [seconds |-> 1]]
      [] name = "a_untagged"     -> [parameters |-> [x |-> 1, y |-> 2]]
      [] name = "a_noparams"     -> [action_type |-> "click"]
      [] name = "a_type_notext"  -> [action_type |-> "type", parameters |-> [target |-> "field"]]
      [] name = "a_scroll_bad"   -> [action_type |-> "scroll",
                                     parameters |-> [direction |-> "sideways"]]
      [] name = "empty"          -> EmptyObj
      [] name = "t_success"      -> [status |-> "success", message |-> "all done"]
      [] name = "t_success_bare" -> [status |-> "success"]
      [] name = "t_failure"      -> [status |-> "failure", message |-> "cannot be done"]
      [] name = "t_next"         -> [status |-> "next_step", description |-> "open the app",
                                     expected_outcome |-> "app window visible"]
      [] name = "t_other"        -> [status |-> "done", message |-> "finished"]
      [] name = "t_untagged"     -> [message |-> "thinking"]

\* the ways a body reaches the controller: bare, fenced, with commentary
Wrappings(name) ==
    { << "{", name, "}" >>,
      << "fence_json", "{", name, "}", "fence" >>,
      << "note", "{", name, "}", "note" >> }

\* responses that are no JSON object after cleanup
MalformedRaw ==
    { << "note" >>, << >>, << "{", "note" >>, << "}", "note", "{" >>,
      << "{", "note", "}" >>, << "{", "s_success", "}", "{", "a_type", "}" >> }

RawOf(names) == UNION { Wrappings(n) : n \in names }

----------------------------------------------------------------------------
(* Response cleanup and parsing *)

\* re.sub of the fence pattern (three backquotes, optionally followed by json)
StripFences(response) == SelectSeq(response, LAMBDA tok : tok \notin Fences)

\* response.find('{'), 0 when absent
FindOpen(r) ==
    IF \E i \in 1..Len(r) : r[i] = "{"
    THEN CHOOSE i \in 1..Len(r) : r[i] = "{" /\ \A j \in 1..(i - 1) : r[j] # "{"
    ELSE 0

\* response.rfind('}'), 0 when absent
FindClose(r) ==
    IF \E i \in 1..Len(r) : r[i] = "}"
    THEN CHOOSE i \in 1..Len(r) : r[i] = "}" /\ \A j \in (i + 1)..Len(r) : r[j] # "}"
    ELSE 0

clean_response(response) ==
    LET r == StripFences(response)
        start == FindOpen(r)
        end == FindClose(r)
    IN  IF start # 0 /\ end # 0 THEN SubSeq(r, start, end) ELSE r

\* the text of a JSON number, such as 42: valid JSON without a brace
JsonNumberToken == "number"

\* what json.loads returns for it, written as a value with the one key json_number
JsonNumber == [json_number |-> 42]

\* the text is that of one JSON object
JsonObjectText(cleaned) ==
    /\ Len(cleaned) = 3
    /\ cleaned[1] = "{"
    /\ cleaned[3] = "}"
    /\ cleaned[2] \in BodyNames

\* json.loads succeeds
JsonValid(cleaned) == JsonObjectText(cleaned) \/ cleaned = << JsonNumberToken >>

\* json.loads(cleaned), for a cleaned text that is valid
JsonLoads(cleaned) == IF JsonObjectText(cleaned) THEN Body(cleaned[2]) ELSE JsonNumber

\* the operand of a membership test ("result" in result) is an int
NotIterable(result) == "json_number" \in DOMAIN result

----------------------------------------------------------------------------
(* Outcomes of the two execute_task methods *)

NoValue == EmptyObj

StepOutcome(kind, exc, msg, limit, value) ==
    [kind |-> kind, exc |-> exc, msg |-> msg, limit |-> limit, value |-> value]

StepRunning == StepOutcome("none", "", "", -1, NoValue)

\* what the prompts of a StepHandler say before format_prompt has run
NoPrompt == [marker |-> "", lines |-> << >>]

TaskOutcome(kind, exc, msg, prefix, message) ==
    [kind |-> kind, exc |-> exc, msg |-> msg, prefix |-> prefix, message |-> message]

TaskRunning == TaskOutcome("none", "", "", "", "")

ExecIdle == [exc |-> "none", msg |-> "", about |-> "", limited |-> FALSE, waited |-> 0]

ExecOutcomeOf(r) ==
    [exc |-> r.exc, msg |-> r.msg, about |-> r.about, limited |-> r.limited, waited |-> r.waited]

\* the last MAX_REQUESTS_PER_MINUTE + 1 instants at which a type action went on to type
Remember(log, t) ==
    LET l == Append(log, t)
    IN  IF Len(l) > MAX_REQUESTS_PER_MINUTE + 1 THEN Tail(l) ELSE l

----------------------------------------------------------------------------
(* StepHandler *)

\* what the decision source may answer to a stand-alone StepHandler
StepRaw ==
    RawOf(StepVerdictBodies \cup StepActionBodies \cup StepBadActionBodies) \cup MalformedRaw

\* what it may answer to a StepHandler run by the agent (max_attempts is 10 there)
AgentStepRaw ==
    RawOf({"s_success", "s_problem", "a_type", "a_wait"}) \cup MalformedRaw

StepResponses == IF tpc = "absent" THEN StepRaw ELSE AgentStepRaw

\* variant: one attempt too many
StepLoopTest_inclusive(a, limit) == a <= limit

\* while attempt < self.max_attempts
StepLoopTest(a, limit) == a < limit

\* variant: any value of the result key makes a verdict
IsVerdictValue_any(value) == TRUE

\* result["result"] == "success" or result["result"] == "problem"
IsVerdictValue(value) == value \in {"success", "problem"}

\* variant: only success ends the loop
IsStepVerdict_successOnly(result) ==
    Has(result, "result") /\ result["result"] \in {"success"}

\* result["result"] is success or problem
IsStepVerdict(result) ==
    Has(result, "result") /\ IsVerdictValue(result["result"])

\* variant: the new instance inherits the actions recorded by the one before
NewStepHandler_sharedHistory(limit) ==
    /\ max_attempts' = limit
    /\ attempt' = 0
    /\ UNCHANGED step_history
    /\ step_outcome' = StepRunning
    /\ step_decides' = 0
    /\ step_shots' = 0
    /\ step_dispatches' = 0
    /\ step_response' = << >>
    /\ step_prompt' = NoPrompt

\* StepHandler(...) as the state of a new instance; execute_task starts with attempt = 0
NewStepHandler(limit) ==
    /\ max_attempts' = limit
    /\ attempt' = 0
    /\ step_history' = << >>
    /\ step_outcome' = StepRunning
    /\ step_decides' = 0
    /\ step_shots' = 0
    /\ step_dispatches' = 0
    /\ step_response' = << >>
    /\ step_prompt' = NoPrompt

\* step['action_type'] or step['parameters'] of an entry raises KeyError
KeyMissing(history) ==
    \E i \in 1..Len(history) :
        ~(Has(history[i], "action_type") /\ Has(history[i], "parameters"))

MissingKey(history) ==
    IF \E i \in 1..Len(history) :
           /\ ~Has(history[i], "action_type")
           /\ \A j \in 1..(i - 1) :
                  Has(history[j], "action_type") /\ Has(history[j], "parameters")
    THEN "'action_type'" ELSE "'parameters'"

\* format_history: the marker of an empty history, else the heading and one
\* numbered line per recorded action
format_history(history) ==
    IF history = << >>
    THEN [marker |-> "No steps taken yet.", lines |-> << >>]
    ELSE [marker |-> "Previous steps taken:",
          lines  |-> [i \in 1..Len(history) |->
                         [n |-> i,
                          action_type |-> history[i]["action_type"],
                          parameters |-> history[i]["parameters"]]]]

\* variant: the screenshot and the query are made without the loop test
S_Capture_noTest ==
    /\ spc = "loop"
    /\ step_shots' = step_shots + 1
    /\ IF KeyMissing(step_history)
       THEN /\ spc' = "raised"
            /\ step_outcome' = StepOutcome("raise", "KeyError", MissingKey(step_history),
                                           -1, NoValue)
            /\ UNCHANGED step_prompt
       ELSE /\ spc' = "query"
            /\ step_prompt' = format_history(step_history)
            /\ UNCHANGED step_outcome
    /\ UNCHANGED << max_attempts, attempt, step_history,
                    step_decides, step_dispatches, step_response >>
    /\ UNCHANGED agentVars
    /\ UNCHANGED execVars

\* loop test passes: take the screenshot, format the prompt
S_Capture ==
    /\ spc = "loop"
    /\ StepLoopTest(attempt, max_attempts)
    /\ step_shots' = step_shots + 1
    /\ IF KeyMissing(step_history)
       THEN /\ spc' = "raised"
            /\ step_outcome' = StepOutcome("raise", "KeyError", MissingKey(step_history),
                                           -1, NoValue)
            /\ UNCHANGED step_prompt
       ELSE /\ spc' = "query"
            /\ step_prompt' = format_history(step_history)
            /\ UNCHANGED step_outcome
    /\ UNCHANGED << max_attempts, attempt, step_history,
                    step_decides, step_dispatches, step_response >>
    /\ UNCHANGED agentVars
    /\ UNCHANGED execVars

\* loop test fails: raise MaxAttemptsExceeded
S_Exhausted ==
    /\ spc = "loop"
    /\ ~StepLoopTest(attempt, max_attempts)
    /\ spc' = "raised"
    /\ step_outcome' = StepOutcome("raise", "MaxAttemptsExceeded",
                                   "Exceeded maximum number of attempts", max_attempts, NoValue)
    /\ UNCHANGED << max_attempts, attempt, step_history, step_decides,
                    step_shots, step_dispatches, step_response, step_prompt >>
    /\ UNCHANGED agentVars
    /\ UNCHANGED execVars

\* variant: an unparseable response is taken for an empty action
ParseStepResponse_lenient(response) ==
    LET cleaned_response == clean_response(response)
    IN  IF ~JsonValid(cleaned_response)
        THEN [kind |-> "action", cleaned |-> cleaned_response, result |-> EmptyObj]
        ELSE IF NotIterable(JsonLoads(cleaned_response))
        THEN [kind |-> "type_error", cleaned |-> cleaned_response, result |-> EmptyObj]
        ELSE IF IsStepVerdict(JsonLoads(cleaned_response))
        THEN [kind |-> "verdict", cleaned |-> cleaned_response,
              result |-> JsonLoads(cleaned_response)]
        ELSE [kind |-> "action", cleaned |-> cleaned_response,
              result |-> JsonLoads(cleaned_response)]

\* lines 137-152 of execute_task: cleanup, json.loads and the verdict test
ParseStepResponse(response) ==
    LET cleaned_response == clean_response(response)
    IN  IF ~JsonValid(cleaned_response)
        THEN [kind |-> "malformed", cleaned |-> cleaned_response, result |-> EmptyObj]
        ELSE IF NotIterable(JsonLoads(cleaned_response))
        THEN [kind |-> "type_error", cleaned |-> cleaned_response, result |-> EmptyObj]
        ELSE IF IsStepVerdict(JsonLoads(cleaned_response))
        THEN [kind |-> "verdict", cleaned |-> cleaned_response,
              result |-> JsonLoads(cleaned_response)]
        ELSE [kind |-> "action", cleaned |-> cleaned_response,
              result |-> JsonLoads(cleaned_response)]

\* query_gemini, clean_response, json.loads, verdict test, history append
S_Decide(response) ==
    /\ spc = "query"
    /\ step_decides' = step_decides + 1
    /\ LET parsed == ParseStepResponse(response)
       IN  /\ step_response' = parsed.cleaned
           /\ IF parsed.kind = "malformed"
              THEN /\ spc' = "raised"
                   /\ step_outcome' = StepOutcome("raise", "GeminiResponseError",
                                                  "Invalid response format from model",
                                                  -1, NoValue)
                   /\ UNCHANGED step_history
              ELSE IF parsed.kind = "type_error"
              THEN /\ spc' = "raised"
                   /\ step_outcome' = StepOutcome("raise", "TypeError",
                                                  "argument of type 'int' is not iterable",
                                                  -1, NoValue)
                   /\ UNCHANGED step_history
              ELSE IF parsed.kind = "verdict"
              THEN /\ spc' = "returned"
                   /\ step_outcome' = StepOutcome("return", "", "", -1, parsed.result)
                   /\ UNCHANGED step_history
              ELSE /\ spc' = "dispatch"
                   /\ step_history' = Append(step_history, parsed.result)
                   /\ UNCHANGED step_outcome
    /\ UNCHANGED << max_attempts, attempt, step_shots, step_dispatches, step_prompt >>
    /\ UNCHANGED agentVars
    /\ UNCHANGED execVars

\* variant: the loop does not pause after an action
Slept_noWait(clock) == clock

\* time.sleep(self.delay_between_attempts), the clock when it returns
Slept(clock) == clock + DEFAULT_DELAY

\* variant: a retried attempt is counted twice
AttemptAfter_double(a) == a + 2

\* attempt += 1, the last statement of the loop body
AttemptAfter(a) == a + 1

\* variant: an exception of execute_action is swallowed and the loop goes on
Propagates_never(exc) == FALSE

\* execute_action(result) is called outside any try block: what it raises
\* leaves execute_task
Propagates(exc) == exc # "none"

\* execute_action(result), then sleep, second screenshot, attempt += 1
S_Dispatch(fault) ==
    /\ spc = "dispatch"
    /\ \E result \in {step_history[Len(step_history)]} :
       \E r \in {execute_action(result, fault, request_timestamps, now)} :
           /\ step_dispatches' = step_dispatches + 1
           /\ calls' = r.calls
           /\ exec_outcome' = ExecOutcomeOf(r)
           /\ request_timestamps' = r.window
           /\ passed' = IF r.limited /\ r.exc # "ValueError"
                        THEN Remember(passed, r.clock) ELSE passed
           /\ text_in' = IF r.limited
                         THEN Get(Get(result, "parameters", EmptyObj), "text", << >>)
                         ELSE << >>
           /\ IF Propagates(r.exc)
              THEN /\ spc' = "raised"
                   /\ step_outcome' = StepOutcome("raise", r.exc, r.msg, -1, NoValue)
                   /\ now' = r.clock
                   /\ UNCHANGED << attempt, step_shots >>
              ELSE /\ spc' = "loop"
                   /\ now' = Slept(r.clock)
                   /\ step_shots' = step_shots + 1
                   /\ attempt' = AttemptAfter(attempt)
                   /\ UNCHANGED step_outcome
    /\ UNCHANGED << max_attempts, step_history, step_decides, step_response,
                    step_prompt, driver_calls, driver_cmd, driver_fault, raw_response >>
    /\ UNCHANGED agentVars

----------------------------------------------------------------------------
(* TodoAIAgent *)

TaskRaw == RawOf(TaskBodies) \cup RawOf({"a_type"}) \cup MalformedRaw

ExceptionClasses ==
    {"ValueError", "RuntimeError", "TypeError", "KeyError", "MaxAttemptsExceeded",
     "GeminiResponseError"}

\* variant: only the StepHandler's own exception classes are caught
CaughtByExecuteStep_own(exc) == exc \in {"MaxAttemptsExceeded", "GeminiResponseError"}

\* the clause "except Exception" of execute_step
CaughtByExecuteStep(exc) == exc \in ExceptionClasses

StepResult(raised, status, prefix, text, limit) ==
    [raised |-> raised, status |-> status, prefix |-> prefix, text |-> text, limit |-> limit]

\* execute_step, given how step_handler.execute_task() ended
execute_step(outcome) ==
    IF outcome.kind = "return"
    THEN IF Has(outcome.value, "result") /\ outcome.value["result"] = "success"
         THEN StepResult(FALSE, "success", "",
                         Get(outcome.value, "description", "Step completed successfully"), -1)
         ELSE StepResult(FALSE, "failure", "",
                         Get(outcome.value, "description", "Step failed"), -1)
    ELSE IF CaughtByExecuteStep(outcome.exc)
    THEN StepResult(FALSE, "error", "Error during step execution: ", outcome.msg, outcome.limit)
    ELSE StepResult(TRUE, "", "", outcome.msg, outcome.limit)

NoStep == [description |-> "", expected_outcome |-> ""]

\* variant: the loop is entered once more when the budget is used up
TaskLoopTest_inclusive(i, limit) == i <= limit

\* while iteration < self.max_iterations
TaskLoopTest(i, limit) == i < limit

\* exception classes of the three raise statements of the agent
ParseErrorClass == "ValueError"
UntaggedErrorClass == "ValueError"
TimeoutErrorClass == "ValueError"

ParseErrorMsg == "Error parsing Gemini response"
UntaggedErrorMsg == "Invalid response from Gemini"
TimeoutMsg == "Task timed out after {self.max_iterations} iterations"

\* parse_response: clean_response, then json.loads
parse_response(response) ==
    LET cleaned == clean_response(response)
    IN  IF JsonValid(cleaned)
        THEN [ok |-> TRUE, cleaned |-> cleaned, result |-> JsonLoads(cleaned)]
        ELSE [ok |-> FALSE, cleaned |-> cleaned, result |-> EmptyObj]

\* variant: the failure branch is missing
StatusBranch_noFailure(result) ==
    IF NotIterable(result) THEN "type_error"
    ELSE IF ~Has(result, "status") THEN "untagged"
    ELSE IF result["status"] = "success" THEN "success"
    ELSE IF result["status"] = "next_step" THEN "next_step"
    ELSE "fallthrough"

\* the branch of the status dispatch of execute_task that result takes
StatusBranch(result) ==
    IF NotIterable(result) THEN "type_error"
    ELSE IF ~Has(result, "status") THEN "untagged"
    ELSE IF result["status"] = "success" THEN "success"
    ELSE IF result["status"] = "failure" THEN "failure"
    ELSE IF result["status"] = "next_step" THEN "next_step"
    ELSE "fallthrough"

\* loop test passes: take the screenshot, format the prompt
T_Capture ==
    /\ tpc = "loop"
    /\ TaskLoopTest(iteration, max_iterations)
    /\ tpc' = "query"
    /\ task_shots' = task_shots + 1
    /\ UNCHANGED << max_iterations, iteration, agent_step_history, cur_step,
                    task_outcome, task_decides, steps_spawned, task_response >>
    /\ UNCHANGED stepVars
    /\ UNCHANGED execVars

\* loop test fails: the final raise of execute_task (its message is no f-string)
T_Timeout ==
    /\ tpc = "loop"
    /\ ~TaskLoopTest(iteration, max_iterations)
    /\ tpc' = "raised"
    /\ task_outcome' = TaskOutcome("raise", TimeoutErrorClass, TimeoutMsg, "", "")
    /\ UNCHANGED << max_iterations, iteration, agent_step_history, cur_step,
                    task_decides, task_shots, steps_spawned, task_response >>
    /\ UNCHANGED stepVars
    /\ UNCHANGED execVars

\* query_gemini, parse_response and the status dispatch, up to the creation
\* of the StepHandler in execute_step
T_Decide(response) ==
    /\ tpc = "query"
    /\ task_decides' = task_decides + 1
    /\ LET parsed == parse_response(response)
           result == parsed.result
           branch == StatusBranch(result)
       IN  /\ task_response' = parsed.cleaned
           /\ IF ~parsed.ok
              THEN /\ tpc' = "raised"
                   /\ task_outcome' = TaskOutcome("raise", ParseErrorClass, ParseErrorMsg, "", "")
                   /\ UNCHANGED << iteration, cur_step, steps_spawned >>
                   /\ UNCHANGED stepVars
              ELSE IF branch = "type_error"
              THEN /\ tpc' = "raised"
                   /\ task_outcome' = TaskOutcome("raise", "TypeError",
                                                  "argument of type 'int' is not iterable",
                                                  "", "")
                   /\ UNCHANGED << iteration, cur_step, steps_spawned >>
                   /\ UNCHANGED stepVars
              ELSE IF branch = "untagged"
              THEN /\ tpc' = "raised"
                   /\ task_outcome' = TaskOutcome("raise", UntaggedErrorClass,
                                                  UntaggedErrorMsg, "", "")
                   /\ UNCHANGED << iteration, cur_step, steps_spawned >>
                   /\ UNCHANGED stepVars
              ELSE IF branch = "success"
              THEN /\ tpc' = "returned"
                   /\ task_outcome' = TaskOutcome("return", "", "",
                                                  "Task completed successfully: ",
                                                  Get(result, "message", ""))
                   /\ UNCHANGED << iteration, cur_step, steps_spawned >>
                   /\ UNCHANGED stepVars
              ELSE IF branch = "failure"
              THEN /\ tpc' = "returned"
                   /\ task_outcome' = TaskOutcome("return", "", "", "Task failed: ",
                                                  Get(result, "message", ""))
                   /\ UNCHANGED << iteration, cur_step, steps_spawned >>
                   /\ UNCHANGED stepVars
              ELSE IF branch = "next_step"
              THEN /\ tpc' = "step"
                   /\ cur_step' =
                          [description |-> Get(result, "description", "Unknown step"),
                           expected_outcome |->
                               Get(result, "expected_outcome", "Step completed")]
                   /\ steps_spawned' = steps_spawned + 1
                   /\ spc' = "loop"
                   /\ NewStepHandler(DEFAULT_MAX_ATTEMPTS)
                   /\ UNCHANGED << iteration, task_outcome >>
              ELSE /\ tpc' = "loop"
                   /\ iteration' = iteration + 1
                   /\ UNCHANGED << cur_step, task_outcome, steps_spawned >>
                   /\ UNCHANGED stepVars
    /\ UNCHANGED << max_iterations, agent_step_history, task_shots >>
    /\ UNCHANGED execVars

\* variant: the queue goes away with the StepHandler that used it
WindowAfterStep_fresh(ts) == << >>

\* request_timestamps is a module-level queue of action_executor, created once
\* at import: it outlives the StepHandler of a step
WindowAfterStep(ts) == ts

\* variant: the history keeps the latest step only
Recorded_latestOnly(history, description, result) ==
    << [description |-> description, result |-> result] >>

\* self.step_history.append({"description": ..., "result": ...})
Recorded(history, description, result) ==
    Append(history, [description |-> description, result |-> result])

\* execute_step returns: history append, sleep, second screenshot, iteration += 1
T_StepDone ==
    /\ tpc = "step"
    /\ spc \in {"returned", "raised"}
    /\ LET step_result == execute_step(step_outcome)
       IN  IF step_result.raised
           THEN /\ tpc' = "raised"
                /\ task_outcome' = TaskOutcome("raise", step_outcome.exc, step_outcome.msg, "", "")
                /\ UNCHANGED << iteration, agent_step_history, task_shots, now >>
           ELSE /\ tpc' = "loop"
                /\ agent_step_history' =
                       Recorded(agent_step_history, cur_step.description,
                                [prefix |-> step_result.prefix,
                                 text |-> step_result.text,
                                 limit |-> step_result.limit])
                /\ now' = now + DEFAULT_DELAY
                /\ task_shots' = task_shots + 1
                /\ iteration' = iteration + 1
                /\ UNCHANGED task_outcome
    /\ cur_step' = NoStep
    /\ spc' = "idle"
    /\ NewStepHandler(0)
    /\ request_timestamps' = WindowAfterStep(request_timestamps)
    /\ UNCHANGED << max_iterations, task_decides, steps_spawned, task_response >>
    /\ UNCHANGED << calls, exec_outcome, passed, text_in,
                    driver_calls, driver_cmd, driver_fault, raw_response >>

----------------------------------------------------------------------------
(* The agent: TodoAIAgent(task, max_iterations).execute_task() *)

ExecInit ==
    /\ now = 0
    /\ request_timestamps = << >>
    /\ calls = << >>
    /\ exec_outcome = ExecIdle
    /\ passed = << >>
    /\ text_in = << >>
    /\ driver_calls = 0
    /\ driver_cmd = EmptyObj
    /\ driver_fault = "none"
    /\ raw_response = << >>

\* variant: the constructor refuses a max_iterations below 1
AcceptsMaxIterations_positive(limit) == limit >= 1

\* TodoAIAgent.__init__ stores max_iterations as given, whatever its value
AcceptsMaxIterations(limit) == TRUE

Init ==
    /\ max_iterations \in -1..MaxIterations
    /\ tpc = IF AcceptsMaxIterations(max_iterations) THEN "loop" ELSE "invalid"
    /\ iteration = 0
    /\ agent_step_history = << >>
    /\ cur_step = NoStep
    /\ task_outcome = TaskRunning
    /\ task_decides = 0
    /\ task_shots = 0
    /\ steps_spawned = 0
    /\ task_response = << >>
    /\ spc = "idle"
    /\ max_attempts = 0
    /\ attempt = 0
    /\ step_history = << >>
    /\ step_outcome = StepRunning
    /\ step_decides = 0
    /\ step_shots = 0
    /\ step_dispatches = 0
    /\ step_response = << >>
    /\ step_prompt = NoPrompt
    /\ ExecInit

Next ==
    \/ T_Capture
    \/ T_Timeout
    \/ \E response \in TaskRaw : T_Decide(response)
    \/ T_StepDone
    \/ S_Capture
    \/ S_Exhausted
    \/ \E response \in StepResponses : S_Decide(response)
    \/ \E fault \in Faults : S_Dispatch(fault)

Spec == Init /\ [][Next]_vars

\* every statement of the two loops completes: each call to the model, the
\* locator and the driver returns or raises
SpecLive == Spec /\ WF_vars(Next)

----------------------------------------------------------------------------
(* A StepHandler on its own: StepHandler(step, outcome, max_attempts)      *)
(* followed by execute_task()                                              *)
\* variant: only a negative max_attempts is refused
RejectsMaxAttempts_negativeOnly(limit) == limit < 0

\* the validation of StepHandler.__init__: if max_attempts < 1
RejectsMaxAttempts(limit) == limit < 1

InitStep ==
    /\ tpc = "absent"
    /\ max_iterations = 0
    /\ iteration = 0
    /\ agent_step_history = << >>
    /\ cur_step = NoStep
    /\ task_outcome = TaskRunning
    /\ task_decides = 0
    /\ task_shots = 0
    /\ steps_spawned = 0
    /\ task_response = << >>
    /\ max_attempts \in -1..MaxAttempts
    /\ spc = IF RejectsMaxAttempts(max_attempts) THEN "invalid" ELSE "loop"
    /\ attempt = 0
    /\ step_history = << >>
    /\ step_outcome = IF RejectsMaxAttempts(max_attempts)
                      THEN StepOutcome("raise", "ValueError",
                                       "max_attempts must be at least 1", -1, NoValue)
                      ELSE StepRunning
    /\ step_decides = 0
    /\ step_shots = 0
    /\ step_dispatches = 0
    /\ step_response = << >>
    /\ step_prompt = NoPrompt
    /\ ExecInit

NextStep ==
    \/ S_Capture
    \/ S_Exhausted
    \/ \E response \in StepResponses : S_Decide(response)
    \/ \E fault \in Faults : S_Dispatch(fault)

SpecStep == InitStep /\ [][NextStep]_vars

----------------------------------------------------------------------------
(* execute_action called directly: no agent, no StepHandler *)

NoControllers ==
    /\ tpc = "absent"
    /\ max_iterations = 0
    /\ iteration = 0
    /\ agent_step_history = << >>
    /\ cur_step = NoStep
    /\ task_outcome = TaskRunning
    /\ task_decides = 0
    /\ task_shots = 0
    /\ steps_spawned = 0
    /\ task_response = << >>
    /\ spc = "absent"
    /\ max_attempts = 0
    /\ attempt = 0
    /\ step_history = << >>
    /\ step_outcome = StepRunning
    /\ step_decides = 0
    /\ step_shots = 0
    /\ step_dispatches = 0
    /\ step_response = << >>
    /\ step_prompt = NoPrompt

TypeCommand(text) == [action_type |-> "type", parameters |-> [text |-> text]]

\* execute_action(action_data) from the top level
X_Execute(action_data, fault) ==
    LET r == execute_action(action_data, fault, request_timestamps, now)
    IN  /\ driver_calls' = driver_calls + 1
        /\ driver_cmd' = action_data
        /\ driver_fault' = fault
        /\ UNCHANGED raw_response
        /\ calls' = r.calls
        /\ exec_outcome' = ExecOutcomeOf(r)
        /\ request_timestamps' = r.window
        /\ now' = r.clock
        /\ passed' = IF r.limited /\ r.exc # "ValueError"
                     THEN Remember(passed, r.clock) ELSE passed
        /\ text_in' = IF r.limited
                      THEN Get(Get(action_data, "parameters", EmptyObj), "text", << >>)
                      ELSE << >>
        /\ UNCHANGED agentVars
        /\ UNCHANGED stepVars

----------------------------------------------------------------------------
(* Typing: one type command with an arbitrary short text *)

Chars == {"a", " ", "\n"}

Texts == UNION { [1..n -> Chars] : n \in 0..MaxTextLen }

K_Type(text, fault) ==
    /\ driver_calls = 0
    /\ X_Execute(TypeCommand(text), fault)

InitType == NoControllers /\ ExecInit

NextType == \E text \in Texts, fault \in {"none", "actuator"} : K_Type(text, fault)

SpecType == InitType /\ [][NextType]_vars

----------------------------------------------------------------------------
(* Rate limiter: a run of type commands at arbitrary instants *)

Elapse == {30, RATE_WINDOW}

\* time passes between two commands
R_Tick(d) ==
    /\ now + d <= MaxClock
    /\ now' = now + d
    /\ UNCHANGED << request_timestamps, calls, exec_outcome, passed, text_in,
                    driver_calls, driver_cmd, driver_fault, raw_response >>
    /\ UNCHANGED agentVars
    /\ UNCHANGED stepVars

R_Type ==
    /\ driver_calls < MaxTypes
    /\ enforce_rate_limit(request_timestamps, now).clock <= MaxClock
    /\ X_Execute(TypeCommand(<< "a" >>), "none")

InitRate == NoControllers /\ ExecInit

NextRate ==
    \/ \E d \in Elapse : R_Tick(d)
    \/ R_Type

SpecRate == InitRate /\ [][NextRate]_vars

----------------------------------------------------------------------------
(* Executor: a few commands of every shape, given directly to             *)
(* execute_action, from an empty or a full rate-limiter window             *)

MaxExecs == 2          \* commands given in one run of the executor specification

PointerParams ==
    { [x |-> 1, y |-> 2], [x |-> 0, y |-> 0], [target |-> "OK button"],
      [x |-> 1, y |-> 2, target |-> "OK button"], [x |-> 1],
      [x |-> 1, target |-> "OK button"], [target |-> ""], [reason |-> "none given"] }

ScrollParams ==
    { [direction |-> d] : d \in {"up", "down", "left", "right", "sideways"} }
    \cup { [direction |-> d, amount |-> 3] : d \in {"up", "down", "left", "right"} }
    \cup { [amount |-> 3] }

HotkeyParams ==
    { [keys |-> << "ctrl", "c" >>], [keys |-> << "alt", "shift", "tab" >>],
      [keys |-> << "enter" >>], [keys |-> << >>],
      [keys |-> << "ctrl+c" >>, keys_type |-> "str"],
      [target |-> "OK button"] }

TypeParams ==
    { [text |-> << "a", "\n", " ", "b" >>], [text |-> << >>], [target |-> "field"] }

Commands ==
    { [action_type |-> "click", parameters |-> p] : p \in PointerParams }
    \cup { [action_type |-> "doubleclick", parameters |-> p] : p \in PointerParams }
    \cup { [action_type |-> "scroll", parameters |-> p] : p \in ScrollParams }
    \cup { [action_type |-> "hotkey", parameters |-> p] : p \in HotkeyParams }
    \cup { [action_type |-> "type", parameters |-> p] : p \in TypeParams }
    \cup { [action_type |-> t, parameters |-> EmptyObj] :
               t \in {"click", "doubleclick", "type", "scroll", "hotkey"} }
    \cup { [action_type |-> t] : t \in {"click", "type"} }
    \cup { [action_type |-> "wait", parameters |-> [seconds |-> 1]],
           [action_type |-> "", parameters |-> [x |-> 1, y |-> 2]],
           [parameters |-> [x |-> 1, y |-> 2]],
           [parameters |-> [text |-> << "a" >>]],
           EmptyObj }

\* a window that MAX_REQUESTS_PER_MINUTE type actions at time 0 leave behind
FullWindow == [i \in 1..MAX_REQUESTS_PER_MINUTE |-> 0]

E_Execute(action_data, fault) ==
    /\ driver_calls < MaxExecs
    /\ X_Execute(action_data, fault)

InitExec ==
    /\ NoControllers
    /\ now = 0
    /\ request_timestamps \in { << >>, FullWindow }
    /\ passed = request_timestamps
    /\ calls = << >>
    /\ exec_outcome = ExecIdle
    /\ text_in = << >>
    /\ driver_calls = 0
    /\ driver_cmd = EmptyObj
    /\ driver_fault = "none"
    /\ raw_response = << >>

NextExec == \E action_data \in Commands, fault \in Faults : E_Execute(action_data, fault)

SpecExec == InitExec /\ [][NextExec]_vars

----------------------------------------------------------------------------
(* One parser on its own: the StepHandler and the agent, each at its      *)
(* first query, are given an arbitrary short response                      *)

MaxTokens == 5         \* longest response, in tokens, given to a parser on its own

ResponseTokens == Fences \cup {"{", "}", "note", JsonNumberToken, "s_success"}

RawInputs == UNION { [1..n -> ResponseTokens] : n \in 0..MaxTokens }

InitClean ==
    /\ raw_response \in RawInputs
    /\ \/ /\ tpc = "absent"
          /\ max_iterations = 0
          /\ task_shots = 0
          /\ spc = "query"
          /\ max_attempts = 1
          /\ step_shots = 1
       \/ /\ tpc = "query"
          /\ max_iterations = 1
          /\ task_shots = 1
          /\ spc = "idle"
          /\ max_attempts = 0
          /\ step_shots = 0
    /\ iteration = 0
    /\ agent_step_history = << >>
    /\ cur_step = NoStep
    /\ task_outcome = TaskRunning
    /\ task_decides = 0
    /\ steps_spawned = 0
    /\ task_response = << >>
    /\ attempt = 0
    /\ step_history = << >>
    /\ step_outcome = StepRunning
    /\ step_decides = 0
    /\ step_dispatches = 0
    /\ step_response = << >>
    /\ step_prompt = NoPrompt
    /\ now = 0
    /\ request_timestamps = << >>
    /\ calls = << >>
    /\ exec_outcome = ExecIdle
    /\ passed = << >>
    /\ text_in = << >>
    /\ driver_calls = 0
    /\ driver_cmd = EmptyObj
    /\ driver_fault = "none"

NextClean ==
    \/ S_Decide(raw_response)
    \/ T_Decide(raw_response)

SpecClean == InitClean /\ [][NextClean]_vars

----------------------------------------------------------------------------
(* Properties *)

\* a cleaned response that is one JSON object
WellFormedJson(cleaned) ==
    /\ Len(cleaned) = 3
    /\ cleaned[1] = "{"
    /\ cleaned[3] = "}"
    /\ cleaned[2] \in BodyNames

\* an object tagged as a step-level verdict
VerdictTagged(obj) ==
    "result" \in DOMAIN obj /\ obj["result"] \in {"success", "problem"}

\* the running step has ended, and not in success
StepFailed ==
    /\ tpc = "step"
    /\ spc \in {"returned", "raised"}
    /\ ~(step_outcome.kind = "return" /\ "result" \in DOMAIN step_outcome.value
         /\ step_outcome.value["result"] = "success")

\* C1: when the StepHandler of a next_step iteration ends in a problem
\* verdict, in exhaustion, in a malformed-response error or in an executor
\* error, execute_task raises nothing in that iteration: one StepRecord for
\* the step is appended, the iteration counter advances and the loop is back
\* at its top, where the next screenshot and Decide call follow if
\* iterations remain.
C1_FailureIsolation ==
    /\ [][StepFailed =>
            /\ tpc' = "loop"
            /\ task_outcome' = TaskRunning
            /\ iteration' = iteration + 1
            /\ Len(agent_step_history') = Len(agent_step_history) + 1
            /\ SubSeq(agent_step_history', 1, Len(agent_step_history)) = agent_step_history
            /\ agent_step_history'[Len(agent_step_history')].description
                   = cur_step.description]_vars
    /\ []((tpc = "loop" /\ iteration < max_iterations) => ENABLED T_Capture)
    /\ [](tpc = "query" => ENABLED (\E response \in TaskRaw : T_Decide(response)))

C1_Witness ==
    /\ task_decides >= 2
    /\ Len(agent_step_history) >= 1
    /\ agent_step_history[1].result.prefix = "Error during step execution: "
    /\ agent_step_history[1].result.text = "Error during type action"

\* C2 (as claimed): in every trailing 60-second interval at most 15 type
\* operations get past the limiter; so of any 16 consecutive ones the last
\* passes at least 60 seconds after the first.
C2_RollingWindow ==
    Len(passed) = MAX_REQUESTS_PER_MINUTE + 1 =>
        passed[Len(passed)] - passed[1] >= RATE_WINDOW

\* C3: from an empty window the first 15 type actions never block; the 16th
\* returns no earlier than 60 seconds after the 1st was recorded, and it
\* blocks exactly when it is issued within those 60 seconds.
C3_SixteenthBlocks ==
    /\ (driver_calls >= 1 /\ driver_calls <= MAX_REQUESTS_PER_MINUTE) =>
           /\ exec_outcome.waited = 0
           /\ Len(passed) = driver_calls
    /\ driver_calls = MAX_REQUESTS_PER_MINUTE + 1 =>
           /\ Len(passed) = driver_calls
           /\ passed[driver_calls] - passed[1] >= RATE_WINDOW
           /\ (exec_outcome.waited > 0) <=>
                  ((passed[driver_calls] - exec_outcome.waited) - passed[1] < RATE_WINDOW)

C3_Witness ==
    /\ driver_calls = MAX_REQUESTS_PER_MINUTE + 1
    /\ exec_outcome.waited = RATE_WINDOW - 30
    /\ passed[driver_calls] = passed[1] + RATE_WINDOW

\* a line of whitespace only
IsBlank(line) == \A i \in 1..Len(line) : line[i] \in {" ", "\t", "\n"}

\* number of space characters a line starts with
LeadingSpaceCount(line) ==
    CHOOSE k \in 0..Len(line) :
        /\ \A i \in 1..k : line[i] = " "
        /\ (k = Len(line) \/ line[k + 1] # " ")

RECURSIVE TabsPerLine(_, _)
\* for each typewrite call of a log, the number of tab presses since the previous one
TabsPerLine(cs, acc) ==
    IF Len(cs) = 0 THEN << >>
    ELSE IF Head(cs).op = "typewrite" THEN << acc >> \o TabsPerLine(Tail(cs), 0)
    ELSE IF Head(cs).op = "press" /\ Head(cs).s = << "tab" >>
         THEN TabsPerLine(Tail(cs), acc + 1)
    ELSE TabsPerLine(Tail(cs), acc)

\* C4 (as claimed): every typed line of a type command is preceded by
\* k // 4 tab presses, k being the number of leading spaces of that line of
\* the text.
C4_TabsPerIndent ==
    (driver_calls = 1 /\ exec_outcome.exc = "none" /\ exec_outcome.limited) =>
        LET lines == SelectSeq(SplitLines(text_in), LAMBDA l : ~IsBlank(l))
            tabs == TabsPerLine(calls, 0)
        IN  /\ Len(tabs) = Len(lines)
            /\ \A i \in 1..Len(lines) : tabs[i] = LeadingSpaceCount(lines[i]) \div 4

\* C5: a verdict (result success or problem) ends StepHandler.execute_task in
\* the iteration that received it and is returned; no verdict is ever in the
\* history, and at the return every earlier Decide call, and no other, has
\* one history entry, one dispatch and one counted attempt.
C5_VerdictEndsLoop ==
    /\ \A i \in 1..Len(step_history) : ~VerdictTagged(step_history[i])
    /\ (step_decides > 0 /\ WellFormedJson(step_response)
        /\ VerdictTagged(Body(step_response[2]))) =>
           /\ spc = "returned"
           /\ step_outcome.kind = "return"
           /\ step_outcome.value = Body(step_response[2])
    /\ spc = "returned" =>
           /\ VerdictTagged(step_outcome.value)
           /\ Len(step_history) = step_decides - 1
           /\ step_dispatches = step_decides - 1
           /\ attempt = step_decides - 1
           /\ ~ENABLED NextStep

C5_Witness ==
    /\ spc = "returned"
    /\ step_outcome.value = [result |-> "problem", description |-> "dialog in the way"]
    /\ Len(step_history) = 2
    /\ step_decides = 3

\* C6: after max_attempts action responses, each dispatched without error,
\* the loop test fails and the only continuation is the raise of
\* MaxAttemptsExceeded naming max_attempts; the counter never passes
\* max_attempts and that error is raised in no other situation.
C6_Exhaustion ==
    /\ spc # "invalid" => attempt <= max_attempts
    /\ (spc \in {"loop", "query", "dispatch", "returned", "raised"}
        /\ attempt = max_attempts) =>
           /\ Len(step_history) = max_attempts
           /\ step_dispatches = max_attempts
           /\ step_decides = max_attempts
           /\ spc \in {"loop", "raised"}
           /\ spc = "loop" => (ENABLED S_Exhausted /\ ~ENABLED S_Capture)
           /\ spc = "raised" =>
                  step_outcome = [kind |-> "raise", exc |-> "MaxAttemptsExceeded",
                                  msg |-> "Exceeded maximum number of attempts",
                                  limit |-> max_attempts, value |-> EmptyObj]
    /\ step_outcome.exc = "MaxAttemptsExceeded" => (spc = "raised" /\ attempt = max_attempts)

C6_Witness ==
    /\ spc = "raised"
    /\ step_outcome.exc = "MaxAttemptsExceeded"
    /\ step_outcome.limit = 2
    /\ Len(step_history) = 2

\* C7 (as claimed): the error raised when the iteration budget is used up
\* is of another kind than the errors raised for a malformed response and
\* for a response without a status.
C7_TimeoutDistinct ==
    (tpc = "raised" /\ task_outcome.msg = TimeoutMsg) =>
        task_outcome.exc \notin {ParseErrorClass, UntaggedErrorClass}

\* C8 (as claimed): a parsed task-level response without a recognizable
\* status (no status key, or a value other than success, failure,
\* next_step) makes execute_task raise in that iteration.
C8_UntaggedIsFatal ==
    (task_decides > 0 /\ WellFormedJson(task_response)
     /\ ("status" \notin DOMAIN Body(task_response[2])
         \/ Body(task_response[2])["status"] \notin {"success", "failure", "next_step"})) =>
        /\ tpc = "raised"
        /\ task_outcome.kind = "raise"

\* C9: a step-level response that is no JSON object after cleanup makes
\* StepHandler.execute_task raise GeminiResponseError at once: nothing is
\* appended or dispatched for it, no attempt is counted and the handler does
\* nothing further.
C9_MalformedAborts ==
    /\ (step_decides > 0 /\ ~WellFormedJson(step_response)) =>
           /\ spc = "raised"
           /\ step_outcome.kind = "raise"
           /\ step_outcome.exc = "GeminiResponseError"
           /\ Len(step_history) = step_decides - 1
           /\ step_dispatches = step_decides - 1
           /\ attempt = step_decides - 1
           /\ ~ENABLED NextStep
    /\ step_outcome.exc = "GeminiResponseError" => ~WellFormedJson(step_response)

C9_Witness ==
    /\ spc = "raised"
    /\ step_outcome.exc = "GeminiResponseError"
    /\ step_response = << "{", "note" >>
    /\ step_decides = 2
    /\ Len(step_history) = 1

\* C10: a task-level response with status success or failure makes
\* execute_task return its message in that iteration: no StepHandler is
\* created for it, no StepRecord is appended, and no Decide call or
\* screenshot follows.
C10_TaskVerdictReturns ==
    LET tagged == /\ task_decides > 0
                  /\ WellFormedJson(task_response)
                  /\ "status" \in DOMAIN Body(task_response[2])
                  /\ Body(task_response[2])["status"] \in {"success", "failure"}
    IN  /\ tagged =>
               /\ tpc = "returned"
               /\ task_outcome.kind = "return"
               /\ task_outcome.prefix =
                      (IF Body(task_response[2])["status"] = "success"
                       THEN "Task completed successfully: " ELSE "Task failed: ")
               /\ task_outcome.message =
                      (IF "message" \in DOMAIN Body(task_response[2])
                       THEN Body(task_response[2])["message"] ELSE "")
               /\ spc = "idle"
               /\ steps_spawned = Len(agent_step_history)
               /\ task_decides = iteration + 1
               /\ task_shots = task_decides + Len(agent_step_history)
               /\ ~ENABLED Next
        /\ tpc = "returned" => tagged

C10_Witness ==
    /\ tpc = "returned"
    /\ task_outcome.prefix = "Task failed: "
    /\ task_outcome.message = "cannot be done"
    /\ Len(agent_step_history) = 1
    /\ task_decides = 2

\* C11 (as claimed): the StepRecord appended for a step that ended in a
\* problem verdict, in exhaustion or in an error carries a status field whose
\* value is failure or error.
C11_RecordHasStatus ==
    [][StepFailed =>
           LET rec == agent_step_history'[Len(agent_step_history')]
           IN  /\ Len(agent_step_history') = Len(agent_step_history) + 1
               /\ "status" \in DOMAIN rec
               /\ rec["status"] \in {"failure", "error"}]_vars

\* the five action types execute_action knows
KnownActionTypes == {"click", "doubleclick", "type", "scroll", "hotkey"}

\* a command without a known action_type or without a non-empty parameters object
IllFormedCommand(cmd) ==
    \/ "action_type" \notin DOMAIN cmd
    \/ cmd["action_type"] \notin KnownActionTypes
    \/ "parameters" \notin DOMAIN cmd
    \/ DOMAIN cmd["parameters"] = {}

\* a direct execute_action call is made in this step
Executes == driver_calls' = driver_calls + 1

\* C12: execute_action on a command whose action_type is missing or unknown,
\* or whose parameters are missing or empty, raises ValueError before any
\* side effect: no driver call, no locator call, and the rate-limiter window,
\* the clock and the record of passed type actions are as before.
C12_InvalidCommandNoEffect ==
    [][(Executes /\ IllFormedCommand(driver_cmd')) =>
           /\ exec_outcome'.exc = "ValueError"
           /\ calls' = << >>
           /\ request_timestamps' = request_timestamps
           /\ passed' = passed
           /\ now' = now
           /\ ~exec_outcome'.limited
           /\ exec_outcome'.waited = 0]_vars

C12_Witness ==
    /\ driver_calls = 2
    /\ "action_type" \in DOMAIN driver_cmd
    /\ driver_cmd["action_type"] = "type"
    /\ "parameters" \in DOMAIN driver_cmd
    /\ DOMAIN driver_cmd["parameters"] = {}
    /\ exec_outcome.exc = "ValueError"
    /\ request_timestamps = FullWindow

\* the calls of a log made to the locator / to the pyautogui driver
LocatorCalls(cs) == SelectSeq(cs, LAMBDA c : c.op = "locate")
ActuatorCalls(cs) == SelectSeq(cs, LAMBDA c : c.op \notin {"locate", "sleep"})

\* C13: execute_action ends in success, ValueError or RuntimeError and in
\* nothing else.  Whenever the driver fails in a call made for the command,
\* whatever the action type, or the locator fails in its call, the outcome
\* is RuntimeError; for a failing locator the error names the target and no
\* click is made.  RuntimeError has no other origin.
C13_FailuresWrapped ==
    /\ exec_outcome.exc \in {"none", "ValueError", "RuntimeError"}
    /\ (driver_calls > 0 /\ driver_fault = "actuator" /\ ActuatorCalls(calls) # << >>) =>
           /\ exec_outcome.exc = "RuntimeError"
           /\ Len(ActuatorCalls(calls)) = 1
           /\ LocatorCalls(calls) # << >> =>
                  exec_outcome.about = driver_cmd["parameters"]["target"]
    /\ (driver_calls > 0 /\ driver_fault = "resolver" /\ LocatorCalls(calls) # << >>) =>
           /\ exec_outcome.exc = "RuntimeError"
           /\ exec_outcome.about = driver_cmd["parameters"]["target"]
           /\ ActuatorCalls(calls) = << >>
    /\ exec_outcome.exc = "RuntimeError" =>
           /\ driver_fault # "none"
           /\ calls # << >>

C13_Witness ==
    /\ driver_calls > 0
    /\ driver_fault = "resolver"
    /\ "action_type" \in DOMAIN driver_cmd
    /\ driver_cmd["action_type"] = "doubleclick"
    /\ exec_outcome.exc = "RuntimeError"
    /\ exec_outcome.about = "OK button"
    /\ calls = << [op |-> "locate", x |-> 0, y |-> 0, s |-> << "OK button" >>] >>

\* the last command given is a click or doubleclick with a non-empty
\* parameters object
PointerCommand ==
    /\ driver_calls > 0
    /\ "action_type" \in DOMAIN driver_cmd
    /\ driver_cmd["action_type"] \in {"click", "doubleclick"}
    /\ "parameters" \in DOMAIN driver_cmd
    /\ DOMAIN driver_cmd["parameters"] # {}

\* the pyautogui function a click / doubleclick command ends in
PointerOp == IF driver_cmd["action_type"] = "click" THEN "click" ELSE "doubleClick"

HasCoordinates == {"x", "y"} \subseteq DOMAIN driver_cmd["parameters"]

HasTarget ==
    /\ "target" \in DOMAIN driver_cmd["parameters"]
    /\ driver_cmd["parameters"]["target"] # ""

\* C14: a click or doubleclick command with both x and y is executed by one
\* driver call at exactly (x, y) and never calls the locator, with or
\* without a target beside the coordinates; it fails only if that call fails.
C14_CoordinatesBypassLocator ==
    (PointerCommand /\ HasCoordinates) =>
        /\ calls = << [op |-> PointerOp,
                       x |-> driver_cmd["parameters"]["x"],
                       y |-> driver_cmd["parameters"]["y"],
                       s |-> << >>] >>
        /\ exec_outcome.exc = (IF driver_fault = "actuator" THEN "RuntimeError" ELSE "none")
        /\ exec_outcome.about = ""

C14_Witness ==
    /\ PointerCommand
    /\ driver_cmd["action_type"] = "doubleclick"
    /\ driver_cmd["parameters"] = [x |-> 1, y |-> 2, target |-> "OK button"]
    /\ driver_fault = "resolver"
    /\ exec_outcome.exc = "none"
    /\ calls = << [op |-> "doubleClick", x |-> 1, y |-> 2, s |-> << >>] >>

\* C15 (as claimed): every click or doubleclick command that execute_action
\* does not reject with ValueError carries exactly one of coordinates (x and
\* y) and a target description; a command with neither is rejected before
\* any driver or locator call, and a command with both is rejected too.
C15_ExactlyOneAddress ==
    PointerCommand =>
        /\ exec_outcome.exc # "ValueError" => (HasCoordinates # HasTarget)
        /\ (~HasCoordinates /\ ~HasTarget) =>
               (exec_outcome.exc = "ValueError" /\ calls = << >>)
        /\ (HasCoordinates /\ HasTarget) => exec_outcome.exc = "ValueError"

\* a non-blank line without the whitespace at its two ends
Trimmed(line) ==
    LET first == CHOOSE i \in 1..Len(line) :
                     /\ line[i] \notin {" ", "\t", "\n"}
                     /\ \A j \in 1..(i - 1) : line[j] \in {" ", "\t", "\n"}
        last == CHOOSE i \in 1..Len(line) :
                    /\ line[i] \notin {" ", "\t", "\n"}
                    /\ \A j \in (i + 1)..Len(line) : line[j] \in {" ", "\t", "\n"}
    IN  SubSeq(line, first, last)

\* C16: a type command that succeeds types exactly the non-blank lines of
\* its text, trimmed, in their order; a blank line causes no driver call at
\* all; one Enter is pressed before every typed line but the first, so m
\* typed lines come with max(0, m - 1) Enters.
C16_TypedLines ==
    (driver_calls = 1 /\ exec_outcome.exc = "none" /\ exec_outcome.limited) =>
        LET lines == SelectSeq(SplitLines(text_in), LAMBDA l : ~IsBlank(l))
            m == Len(lines)
            keystrokes == SelectSeq(calls, LAMBDA c : c.op # "sleep")
            enters == SelectSeq(calls, LAMBDA c : c.op = "press" /\ c.s = << "enter" >>)
        IN  /\ Len(enters) = (IF m = 0 THEN 0 ELSE m - 1)
            /\ Len(keystrokes) = (IF m = 0 THEN 0 ELSE 2 * m - 1)
            /\ \A i \in 1..m :
                   /\ keystrokes[2 * i - 1].op = "typewrite"
                   /\ keystrokes[2 * i - 1].s = Trimmed(lines[i])
            /\ \A i \in 1..(m - 1) :
                   /\ keystrokes[2 * i].op = "press"
                   /\ keystrokes[2 * i].s = << "enter" >>

C16_Witness ==
    /\ driver_calls = 1
    /\ exec_outcome.exc = "none"
    /\ text_in = << " ", "\n", "a", " ", "\n", "a" >>
    /\ Len(SelectSeq(calls, LAMBDA c : c.op = "typewrite")) = 2
    /\ Len(SelectSeq(calls, LAMBDA c : c.op = "press")) = 1

\* the last command given is a scroll command with a non-empty parameters object
ScrollCommand ==
    /\ driver_calls > 0
    /\ "action_type" \in DOMAIN driver_cmd
    /\ driver_cmd["action_type"] = "scroll"
    /\ "parameters" \in DOMAIN driver_cmd
    /\ DOMAIN driver_cmd["parameters"] # {}

ValidDirection ==
    /\ "direction" \in DOMAIN driver_cmd["parameters"]
    /\ driver_cmd["parameters"]["direction"] \in {"up", "down", "left", "right"}

\* C17: a scroll command with a valid direction and amount a (5 when no
\* amount is given) makes exactly one driver call: up is a vertical scroll
\* of +a, down a vertical scroll of -a, right a horizontal scroll of +a, left
\* a horizontal scroll of -a.
C17_ScrollSigns ==
    (ScrollCommand /\ ValidDirection) =>
        LET p == driver_cmd["parameters"]
            a == IF "amount" \in DOMAIN p THEN p["amount"] ELSE 5
        IN  /\ Len(calls) = 1
            /\ calls[1].op = (IF p["direction"] \in {"up", "down"} THEN "scroll" ELSE "hscroll")
            /\ calls[1].x = (IF p["direction"] \in {"up", "right"} THEN a ELSE 0 - a)
            /\ exec_outcome.exc = (IF driver_fault = "actuator" THEN "RuntimeError" ELSE "none")

C17_Witness ==
    /\ ScrollCommand
    /\ driver_cmd["parameters"] = [direction |-> "left", amount |-> 3]
    /\ exec_outcome.exc = "none"
    /\ calls = << [op |-> "hscroll", x |-> -3, y |-> 0, s |-> << >>] >>

\* C18: a scroll command without a direction, or with a direction other
\* than up, down, left, right, raises ValueError and makes no driver call.
C18_BadDirectionRejected ==
    (ScrollCommand /\ ~ValidDirection) =>
        /\ exec_outcome.exc = "ValueError"
        /\ calls = << >>

C18_Witness ==
    /\ ScrollCommand
    /\ driver_cmd["parameters"] = [direction |-> "sideways"]
    /\ driver_fault = "actuator"
    /\ exec_outcome.exc = "ValueError"
    /\ calls = << >>

\* the last command given is a hotkey command with a non-empty parameters object
HotkeyCommand ==
    /\ driver_calls > 0
    /\ "action_type" \in DOMAIN driver_cmd
    /\ driver_cmd["action_type"] = "hotkey"
    /\ "parameters" \in DOMAIN driver_cmd
    /\ DOMAIN driver_cmd["parameters"] # {}

\* its keys value is a non-empty list
KeysGiven ==
    /\ "keys" \in DOMAIN driver_cmd["parameters"]
    /\ Len(driver_cmd["parameters"]["keys"]) > 0
    /\ ("keys_type" \in DOMAIN driver_cmd["parameters"] =>
            driver_cmd["parameters"]["keys_type"] = "list")

\* C19: a hotkey command whose keys are missing, empty or not a list raises
\* ValueError and makes no driver call; any other hotkey command makes one
\* hotkey call that is given all the keys in their order.
C19_HotkeyChord ==
    HotkeyCommand =>
        IF KeysGiven
        THEN /\ calls = << [op |-> "hotkey", x |-> 0, y |-> 0,
                            s |-> driver_cmd["parameters"]["keys"]] >>
             /\ exec_outcome.exc = (IF driver_fault = "actuator" THEN "RuntimeError" ELSE "none")
        ELSE /\ exec_outcome.exc = "ValueError"
             /\ calls = << >>

C19_Witness ==
    /\ HotkeyCommand
    /\ exec_outcome.exc = "none"
    /\ calls = << [op |-> "hotkey", x |-> 0, y |-> 0, s |-> << "alt", "shift", "tab" >>] >>

\* the command of the direct call made in this step is of one of the given
\* action types and has a non-empty parameters object
ExecutesOneOf(types) ==
    /\ Executes
    /\ "action_type" \in DOMAIN driver_cmd'
    /\ driver_cmd'["action_type"] \in types
    /\ "parameters" \in DOMAIN driver_cmd'
    /\ DOMAIN driver_cmd'["parameters"] # {}

\* C20: a click, doubleclick, scroll or hotkey command, whether it succeeds,
\* is rejected or fails, leaves the rate-limiter window as it was, takes no
\* time and does not enter the limiter.  Every type command that reaches
\* handle_type enters the limiter before its first keystroke: the call
\* instant is the newest timestamp of the window and the wait, if any, has
\* passed, also when the first keystroke fails.
C20_OnlyTypeIsLimited ==
    /\ [][ExecutesOneOf({"click", "doubleclick", "scroll", "hotkey"}) =>
              /\ request_timestamps' = request_timestamps
              /\ passed' = passed
              /\ now' = now
              /\ ~exec_outcome'.limited
              /\ exec_outcome'.waited = 0]_vars
    /\ [][ExecutesOneOf({"type"}) =>
              /\ exec_outcome'.limited
              /\ Len(request_timestamps') > 0
              /\ request_timestamps'[Len(request_timestamps')] = now
              /\ Len(request_timestamps') =
                     (IF Len(request_timestamps) < 15
                      THEN Len(request_timestamps) + 1 ELSE 15)
              /\ now' = now + exec_outcome'.waited]_vars

C20_Witness ==
    /\ driver_calls = 2
    /\ "action_type" \in DOMAIN driver_cmd
    /\ driver_cmd["action_type"] = "click"
    /\ exec_outcome.exc = "none"
    /\ ~exec_outcome.limited
    /\ Len(request_timestamps) = 15
    /\ now = 60

\* a type action enters the limiter in this step
Acquires == driver_calls' = driver_calls + 1 /\ exec_outcome'.limited

\* C21: the limiter's queue never holds more than 15 timestamps; an
\* acquisition on a queue of fewer than 15 adds one entry at the end, and an
\* acquisition on a queue of 15 removes the oldest entry, adds one at the end
\* and leaves the others in place, so the queue stays at 15.
C21_WindowBounded ==
    /\ [](Len(request_timestamps) <= 15)
    /\ [][(Acquires /\ Len(request_timestamps) < 15) =>
              /\ Len(request_timestamps') = Len(request_timestamps) + 1
              /\ SubSeq(request_timestamps', 1, Len(request_timestamps)) = request_timestamps]_vars
    /\ [][(Acquires /\ Len(request_timestamps) = 15) =>
              /\ Len(request_timestamps') = 15
              /\ SubSeq(request_timestamps', 1, 14) = SubSeq(request_timestamps, 2, 15)]_vars

C21_Witness ==
    /\ driver_calls = 17
    /\ Len(request_timestamps) = 15
    /\ request_timestamps[14] = 0
    /\ request_timestamps[15] = 60

\* C22: StepHandler(..., max_attempts) with max_attempts below 1 raises
\* ValueError from the constructor: there is no handler to run, so no
\* screenshot is taken, no model query is made, nothing is dispatched or
\* recorded, and nothing can follow.
C22_ConstructorValidates ==
    (tpc = "absent" /\ spc # "absent" /\ max_attempts < 1) =>
        /\ spc = "invalid"
        /\ step_outcome.kind = "raise"
        /\ step_outcome.exc = "ValueError"
        /\ step_shots = 0
        /\ step_decides = 0
        /\ step_dispatches = 0
        /\ step_history = << >>
        /\ ~ENABLED NextStep

C22_Witness ==
    /\ spc = "invalid"
    /\ max_attempts = 0
    /\ step_outcome.exc = "ValueError"
    /\ step_outcome.msg = "max_attempts must be at least 1"
    /\ step_shots = 0

\* a parser has been run on raw_response: the cleaned text it gave to
\* json.loads and the exception it ended in ("" when it raised nothing)
StepParserRan == tpc = "absent" /\ spc # "absent" /\ step_decides = 1 /\ max_iterations = 0
TaskParserRan == tpc # "absent" /\ task_decides = 1
CleanedText == IF StepParserRan THEN step_response ELSE task_response

\* the response without its fence markers
Unfenced(r) == SelectSeq(r, LAMBDA tok : tok \notin {"fence", "fence_json"})

\* the response is one JSON object with nothing but fence markers and
\* commentary around it
WrappedObject(r) ==
    \E i \in 1..Len(r) :
        /\ i + 2 <= Len(r)
        /\ r[i] = "{"
        /\ r[i + 1] \in {"s_success"}
        /\ r[i + 2] = "}"
        /\ \A j \in (1..Len(r)) \ {i, i + 1, i + 2} : r[j] \in {"fence", "fence_json", "note"}

HasBracePair(r) == (\E i \in 1..Len(r) : r[i] = "{") /\ (\E i \in 1..Len(r) : r[i] = "}")

C24_NoRetryOfDispatch ==
    /\ [][(spc = "dispatch" /\ step_dispatches' = step_dispatches + 1
           /\ exec_outcome'.exc # "none") =>
              /\ spc' = "raised"
              /\ step_outcome'.kind = "raise"
              /\ step_outcome'.exc = exec_outcome'.exc
              /\ step_outcome'.exc \in {"ValueError", "RuntimeError"}
              /\ attempt' = attempt
              /\ step_shots' = step_shots
              /\ step_decides' = step_decides
              /\ step_history' = step_history]_vars
    /\ []((tpc = "absent" /\ spc = "raised"
           /\ step_outcome.exc \in {"ValueError", "RuntimeError"}) =>
              /\ exec_outcome.exc = step_outcome.exc
              /\ step_dispatches = attempt + 1
              /\ step_decides = attempt + 1
              /\ step_shots = 2 * attempt + 1
              /\ ~ENABLED NextStep)

C24_Witness ==
    /\ spc = "raised"
    /\ step_outcome.exc = "RuntimeError"
    /\ exec_outcome.about = "OK button"
    /\ attempt = 1
    /\ step_dispatches = 2
    /\ step_shots = 3

\* C25 (as claimed): every entry of StepHandler.step_history is a command
\* with one of the five known action types and with parameters; a response
\* with an unknown or missing action type is never in the history.  (Read
\* between iterations and after the run, not between the append and the
\* dispatch of one iteration.)
C25_HistoryHoldsKnownActions ==
    spc # "dispatch" =>
    \A i \in 1..Len(step_history) :
        /\ "action_type" \in DOMAIN step_history[i]
        /\ step_history[i]["action_type"] \in {"click", "doubleclick", "type", "scroll", "hotkey"}
        /\ "parameters" \in DOMAIN step_history[i]

\* C26: whenever a StepHandler is at the top of its loop its history is as
\* long as its attempt counter; the counter, the number of model queries and
\* the number of dispatches never exceed max_attempts; from one loop top to
\* the next exactly one record is appended and the counter grows by one.
C26_HistoryTracksAttempts ==
    /\ []((tpc = "absent" /\ spc = "loop") =>
              /\ Len(step_history) = attempt
              /\ step_dispatches = attempt
              /\ step_decides = attempt)
    /\ []((tpc = "absent" /\ spc \in {"loop", "query", "dispatch", "returned", "raised"}) =>
              /\ attempt <= max_attempts
              /\ step_decides <= max_attempts
              /\ step_dispatches <= max_attempts
              /\ Len(step_history) <= max_attempts)
    /\ [][/\ attempt' \in {attempt, attempt + 1}
          /\ Len(step_history') \in {Len(step_history), Len(step_history) + 1}
          /\ SubSeq(step_history', 1, Len(step_history)) = step_history
          /\ attempt' = attempt + 1 => (spc = "dispatch" /\ spc' = "loop")]_vars

C26_Witness ==
    /\ tpc = "absent"
    /\ spc = "loop"
    /\ max_attempts = 3
    /\ attempt = 2
    /\ Len(step_history) = 2
    /\ step_decides = 2

\* C27: the agent's step_history only grows at its end: the iteration of a
\* next_step response appends one record {description, result} for that step
\* when the step is over, however it ended; nothing else appends, no entry is
\* changed or removed, and the history is never longer than the iteration
\* counter.
C27_HistoryAppendOnly ==
    /\ [][/\ Len(agent_step_history') \in {Len(agent_step_history), Len(agent_step_history) + 1}
          /\ SubSeq(agent_step_history', 1, Len(agent_step_history)) = agent_step_history]_vars
    /\ [][Len(agent_step_history') = Len(agent_step_history) + 1 =>
              /\ tpc = "step"
              /\ spc \in {"returned", "raised"}
              /\ iteration' = iteration + 1
              /\ DOMAIN agent_step_history'[Len(agent_step_history')] = {"description", "result"}
              /\ agent_step_history'[Len(agent_step_history')].description
                     = cur_step.description]_vars
    /\ [][(tpc = "step" /\ tpc' # "step") =>
              Len(agent_step_history') = Len(agent_step_history) + 1]_vars
    /\ [](tpc # "absent" =>
              /\ Len(agent_step_history) <= iteration
              /\ Len(agent_step_history) = steps_spawned - (IF tpc = "step" THEN 1 ELSE 0))

C27_Witness ==
    /\ tpc = "loop"
    /\ iteration = 2
    /\ Len(agent_step_history) = 2
    /\ agent_step_history[1].result.text = "dialog in the way"
    /\ agent_step_history[2].result.text = "outcome visible"

\* C28: when every call returns or raises, execute_task of the agent ends, by
\* a return or a raise, after at most max_iterations model queries of its
\* own (none when max_iterations is below 1), and every StepHandler it runs
\* ends after at most max_attempts iterations.
C28_Terminates ==
    /\ <>(tpc \in {"returned", "raised"})
    /\ [](task_decides = 0 \/ task_decides <= max_iterations)
    /\ [](iteration = 0 \/ iteration <= max_iterations)
    /\ [](tpc = "step" => (step_decides <= max_attempts /\ attempt <= max_attempts))
    /\ (tpc = "step") ~> (tpc = "step" /\ spc \in {"returned", "raised"})
    /\ [](tpc \in {"returned", "raised"} => ~ENABLED Next)

C28_Witness ==
    /\ tpc = "raised"
    /\ task_outcome.msg = "Task timed out after {self.max_iterations} iterations"
    /\ max_iterations = 2
    /\ task_decides = 2
    /\ Len(agent_step_history) = 2
    /\ agent_step_history[2].result.text = "Exceeded maximum number of attempts"

----------------------------------------------------------------------------
\* C29: every next_step iteration of the agent creates a StepHandler of its
\* own: when the instance is created its history is empty, its attempt
\* counter is 0 and it has made no query; the prompt of its first query says
\* "No steps taken yet." and lists no action; and at any time its history
\* and its prompt hold only actions recorded by its own queries, so an
\* action of an earlier step is in neither.
Spawns == steps_spawned' = steps_spawned + 1

PromptListsHistory ==
    /\ Len(step_prompt.lines) <= Len(step_history)
    /\ \A i \in 1..Len(step_prompt.lines) :
           /\ step_prompt.lines[i].action_type = step_history[i]["action_type"]
           /\ step_prompt.lines[i].parameters = step_history[i]["parameters"]

C29_FreshStepHandler ==
    /\ [][(tpc' = "step" /\ tpc # "step") => Spawns]_vars
    /\ [][Spawns => /\ step_history' = << >>
                    /\ attempt' = 0
                    /\ step_decides' = 0
                    /\ step_prompt' = NoPrompt]_vars
    /\ []((tpc = "step" /\ step_decides = 0) =>
              (step_history = << >> /\ attempt = 0))
    /\ []((tpc = "step" /\ spc = "query" /\ step_decides = 0) =>
              (step_prompt.marker = "No steps taken yet." /\ step_prompt.lines = << >>))
    /\ [](tpc = "step" => (Len(step_history) <= step_decides /\ PromptListsHistory))

C29_Witness ==
    /\ tpc = "step"
    /\ steps_spawned = 2
    /\ spc = "query"
    /\ step_decides = 0
    /\ request_timestamps # << >>
    /\ step_prompt.marker = "No steps taken yet."

----------------------------------------------------------------------------
\* C30: in a StepHandler run every execute_action call is made in an
\* iteration that has taken its own screenshot and made its own query, one
\* query answers for at most one call, and a call that returns is followed
\* by a sleep of delay_between_attempts and a new screenshot before the next
\* iteration's screenshot and query.
Dispatches == step_dispatches' = step_dispatches + 1

C30_ActWaitObserve ==
    /\ [](spc \in {"loop", "query"} =>
             /\ step_decides = step_dispatches
             /\ step_shots = 2 * step_dispatches + (IF spc = "query" THEN 1 ELSE 0))
    /\ [](spc = "dispatch" =>
             /\ step_decides = step_dispatches + 1
             /\ step_shots = 2 * step_dispatches + 1)
    /\ [](step_dispatches <= step_decides /\ step_decides <= step_dispatches + 1)
    /\ [][Dispatches =>
             /\ spc = "dispatch"
             /\ step_decides = step_dispatches + 1
             /\ step_decides' = step_decides
             /\ spc' \in {"loop", "raised"}
             /\ spc' = "loop" => /\ now' >= now + DEFAULT_DELAY
                                 /\ step_shots' = step_shots + 1]_vars

C30_Witness ==
    /\ tpc = "absent"
    /\ spc = "dispatch"
    /\ step_dispatches = 1
    /\ step_decides = 2
    /\ step_shots = 3
    /\ now >= DEFAULT_DELAY

----------------------------------------------------------------------------
\* C31: a type command whose parameters hold no text is rejected with
\* ValueError at once: the call takes no time, does not enter the limiter and
\* leaves the rate-limiter window as it was, and nothing is typed.
TextlessType ==
    /\ ExecutesOneOf({"type"})
    /\ "text" \notin DOMAIN driver_cmd'["parameters"]

C31_TextlessTypeTakesNoSlot ==
    [][TextlessType =>
           /\ exec_outcome'.exc = "ValueError"
           /\ exec_outcome'.msg = "Missing text for type action"
           /\ calls' = << >>
           /\ request_timestamps' = request_timestamps
           /\ now' = now
           /\ ~exec_outcome'.limited
           /\ exec_outcome'.waited = 0]_vars

----------------------------------------------------------------------------
\* C32 (as claimed): a task-level response that is no JSON object after
\* cleanup makes execute_task raise at once an error of a kind of its own,
\* other than the kinds raised for a response without status and for the
\* used-up iteration budget; it is not taken for a verdict or a next step, no
\* StepRecord is appended and no StepHandler is created for it.
C32_TaskMalformedDistinct ==
    (task_decides > 0 /\ ~WellFormedJson(task_response)) =>
        /\ tpc = "raised"
        /\ task_outcome.kind = "raise"
        /\ task_outcome.msg = ParseErrorMsg
        /\ task_outcome.exc \notin {UntaggedErrorClass, TimeoutErrorClass}
        /\ spc = "idle"
        /\ steps_spawned = Len(agent_step_history)
        /\ ~ENABLED Next

----------------------------------------------------------------------------
\* C33 (as claimed): a StepHandler run that returns a verdict has made at
\* most max_attempts - 1 execute_action calls; once the max_attempts-th call
\* has been made no further query follows and the run ends in
\* MaxAttemptsExceeded, whatever the action was.
LastActionMade == spc \notin {"invalid", "dispatch"} /\ step_dispatches = max_attempts

C33_LastActionExhausts ==
    /\ spc = "returned" => step_dispatches <= max_attempts - 1
    /\ LastActionMade =>
           /\ step_decides = max_attempts
           /\ spc \in {"loop", "raised"}
           /\ spc = "loop" => attempt = max_attempts
           /\ spc = "raised" => step_outcome.exc = "MaxAttemptsExceeded"

\* C33 (amended): the same, but the run ends in MaxAttemptsExceeded only
\* when the max_attempts-th call returned; when that call raised, the run has
\* ended in the call's own error.  In both cases the effect of the last
\* action is never put to the decision source.
C33_LastActionNeverEvaluated ==
    /\ spc = "returned" => step_dispatches <= max_attempts - 1
    /\ step_decides <= max_attempts \/ spc = "invalid"
    /\ LastActionMade =>
           /\ step_decides = max_attempts
           /\ spc \in {"loop", "raised"}
           /\ spc = "loop" => (attempt = max_attempts /\ exec_outcome.exc = "none")
           /\ spc = "raised" =>
                  step_outcome.exc = (IF exec_outcome.exc = "none"
                                      THEN "MaxAttemptsExceeded" ELSE exec_outcome.exc)

C33_Witness ==
    /\ max_attempts = 1
    /\ spc = "raised"
    /\ step_outcome.exc = "MaxAttemptsExceeded"
    /\ step_dispatches = 1
    /\ step_decides = 1
    /\ exec_outcome.exc = "none"

----------------------------------------------------------------------------
\* C34: a step-level response object whose result is success or problem is
\* returned as the verdict also when it carries an action_type and
\* parameters: that action is neither appended to the history nor executed.
\* A response object whose result has another value is no verdict: it is
\* appended to the history and given to execute_action like any action.
LastObject == Body(step_response[2])

VerdictWithAction ==
    /\ step_decides > 0
    /\ WellFormedJson(step_response)
    /\ VerdictTagged(LastObject)
    /\ "action_type" \in DOMAIN LastObject
    /\ "parameters" \in DOMAIN LastObject

OtherResultWithAction ==
    /\ step_decides > 0
    /\ WellFormedJson(step_response)
    /\ "result" \in DOMAIN LastObject
    /\ LastObject["result"] \notin {"success", "problem"}

C34_VerdictPrecedence ==
    /\ VerdictWithAction =>
           /\ spc = "returned"
           /\ step_outcome.kind = "return"
           /\ step_outcome.value = LastObject
           /\ Len(step_history) = step_decides - 1
           /\ step_dispatches = step_decides - 1
           /\ \A i \in 1..Len(step_history) : "result" \notin DOMAIN step_history[i]
                                                \/ ~VerdictTagged(step_history[i])
    /\ OtherResultWithAction =>
           /\ spc \in {"dispatch", "loop", "query", "raised"}
           /\ step_outcome.kind # "return"
           /\ Len(step_history) = step_decides
           /\ step_history[Len(step_history)] = LastObject
           /\ step_dispatches = (IF spc = "dispatch" THEN step_decides - 1 ELSE step_decides)
           /\ (spc = "loop" /\ LastObject = Body("s_retry_act")) =>
                  calls = << Call("scroll", -3, 0, << >>) >>

C34_Witness ==
    /\ VerdictWithAction
    /\ spc = "returned"
    /\ step_decides = 2
    /\ step_history = << Body("s_retry_act") >>
    /\ step_dispatches = 1

----------------------------------------------------------------------------
\* C35: an acquisition of the rate limiter sleeps between 0 and 60 seconds
\* and then returns; the timestamps in the queue are in non-decreasing order
\* from the oldest to the newest, so the entry taken out of a full queue is
\* the smallest one.
Sorted(ts) == \A i \in 1..Len(ts) : \A j \in i..Len(ts) : ts[i] <= ts[j]

C35_BoundedWaitSortedWindow ==
    /\ [](Sorted(request_timestamps))
    /\ [][Acquires =>
              /\ exec_outcome'.waited >= 0
              /\ exec_outcome'.waited <= 60
              /\ now' = now + exec_outcome'.waited]_vars
    /\ [][(Acquires /\ Len(request_timestamps) = 15) =>
              /\ \A i \in 1..15 : request_timestamps[1] <= request_timestamps[i]
              /\ \A i \in 1..14 : request_timestamps'[i] = request_timestamps[i + 1]
              /\ request_timestamps'[15] = now
              /\ exec_outcome'.waited =
                     (IF now - request_timestamps[1] < 60
                      THEN 60 - (now - request_timestamps[1]) ELSE 0)]_vars

C35_Witness ==
    /\ exec_outcome.limited
    /\ exec_outcome.waited = 30
    /\ Len(request_timestamps) = 15
    /\ request_timestamps[1] = 0
    /\ request_timestamps[15] = 30
    /\ now = 60

----------------------------------------------------------------------------
\* C36: the agent accepts any max_iterations; with max_iterations of 0 or
\* less execute_task takes no screenshot, makes no query and creates no
\* StepHandler: its only step is the raise of the timeout ValueError, with
\* the history empty.
C36_NoIterationsNoWork ==
    /\ [](max_iterations <= 0 =>
             /\ tpc \in {"loop", "raised"}
             /\ task_shots = 0
             /\ task_decides = 0
             /\ steps_spawned = 0
             /\ spc = "idle"
             /\ agent_step_history = << >>
             /\ iteration = 0
             /\ tpc = "raised" =>
                    /\ task_outcome.kind = "raise"
                    /\ task_outcome.exc = "ValueError"
                    /\ task_outcome.msg =
                           "Task timed out after {self.max_iterations} iterations")
    /\ []((max_iterations <= 0 /\ tpc = "loop") => (ENABLED T_Timeout /\ ~ENABLED T_Capture))

C36_Witness ==
    /\ max_iterations = -1
    /\ tpc = "raised"
    /\ task_outcome.exc = "ValueError"
    /\ task_shots = 0
    /\ task_decides = 0

----------------------------------------------------------------------------
\* C37: the rate-limiter queue belongs to the whole run: it changes only
\* when a type action enters the limiter, never when a StepHandler is
\* created, a step ends or an iteration begins, and it never shrinks.  A type
\* action that finds 15 timestamps in it waits for the oldest one to be 60
\* seconds old, also when those were put by StepHandlers of earlier steps.
LimitedDispatch == step_dispatches' = step_dispatches + 1 /\ exec_outcome'.limited

C37_WindowSharedAcrossSteps ==
    /\ [][request_timestamps' # request_timestamps => LimitedDispatch]_vars
    /\ [][Len(request_timestamps') >= Len(request_timestamps)]_vars
    /\ [][LimitedDispatch =>
              /\ Len(request_timestamps') =
                     (IF Len(request_timestamps) < 15
                      THEN Len(request_timestamps) + 1 ELSE 15)
              /\ request_timestamps'[Len(request_timestamps')] = now
              /\ exec_outcome'.waited =
                     (IF Len(request_timestamps) = 15 /\ now - request_timestamps[1] < 60
                      THEN 60 - (now - request_timestamps[1]) ELSE 0)]_vars

C37_Witness ==
    /\ tpc = "step"
    /\ steps_spawned = 2
    /\ step_dispatches = 6
    /\ Len(agent_step_history) = 1
    /\ Len(request_timestamps) = 15
    /\ exec_outcome.limited
    /\ exec_outcome.waited > 0

====
